---------------------------- MODULE Spec2Model ----------------------------
(***************************************************************************)
(* PR-DNSd: a forwarding DNS resolver with a passive reverse-lookup cache, *)
(* a per-source-IP debounce gate and a domain-suffix upstream router.      *)
(* The model follows src/main.go.  Strings are sequences of one-character  *)
(* strings; Go's 0-based indices are kept.                                 *)
(***************************************************************************)
EXTENDS Integers, Sequences, FiniteSets, TLC

VARIABLES
    clients,            \* handler.clients: suffix -> [Net, Timeout]
    servers,            \* handler.servers: suffix -> destination
    ptrMap,             \* handler.ptrMap: NilMap or reverse name -> forward name
    lastResultSent,     \* handler.lastResultSent: NilMap or ip -> [tm, cnt]
    lastResultSentLock, \* holder of handler.lastResultSentLock, or NoHolder
    ptrMapLock,         \* holder of handler.ptrMapLock, or NoHolder
    DebounceDelay,      \* handler.DebounceDelay
    DebounceCount,      \* handler.DebounceCount
    StoreDB,            \* handler.StoreDB: NoDB, or the contents of the durable store
    running,            \* FALSE once the process was aborted by the Go runtime or log.Fatalf
    now,                \* what time.Now() returns
    g,                  \* one record per ServeDNS goroutine
    budget,             \* queries the clients may still send
    hist,               \* history: what the process wrote and answered since it started
    rq                  \* the router under test: query name and the result of upstreamExchange

vars == <<clients, servers, ptrMap, lastResultSent, lastResultSentLock, ptrMapLock,
          DebounceDelay, DebounceCount, StoreDB, running, now, g, budget, hist, rq>>

-----------------------------------------------------------------------------
(* Strings *)

\* Go: s[i:]
From(s, i) == SubSeq(s, i + 1, Len(s))

\* Go: s[:i]
Upto(s, i) == SubSeq(s, 1, i)

\* Go: strings.Index(s, sub)
Index(s, sub) ==
    LET hits == {i \in 0..(Len(s) - Len(sub)) : SubSeq(s, i + 1, i + Len(sub)) = sub}
    IN  IF hits = {} THEN -1 ELSE CHOOSE i \in hits : \A j \in hits : i <= j

\* Go: strings.TrimSuffix(s, suf)
TrimSuffix(s, suf) ==
    IF Len(s) >= Len(suf) /\ From(s, Len(s) - Len(suf)) = suf
    THEN Upto(s, Len(s) - Len(suf))
    ELSE s

\* a Go map with one more assignment m[k] = v
Put(m, k, v) == [x \in (DOMAIN m) \cup {k} |-> IF x = k THEN v ELSE m[x]]

EmptyMap == [x \in {} |-> x]

\* a map without the key k
Remove(m, k) == [x \in (DOMAIN m) \ {k} |-> m[x]]

Dot == <<".">>

-----------------------------------------------------------------------------
(* Upstream Router *)

ProtoUdp == <<"u", "d", "p">>
ProtoTcp == <<"t", "c", "p">>

\* flag -ctmout, default 0
ClientTimeout == 0

\* one iteration of the loop of SetUpstream over the -upstream values
RECURSIVE SetUpstreamFrom(_, _, _, _)
SetUpstreamFrom(upstream, i, cl, sv) ==
    IF i > Len(upstream) THEN [clients |-> cl, servers |-> sv]
    ELSE LET up0 == upstream[i]
             eqIdx == Index(up0, <<"=">>)
             domain == IF eqIdx >= 0 THEN Upto(up0, eqIdx) ELSE <<>>
             up1 == IF eqIdx >= 0 THEN From(up0, eqIdx + 1) ELSE up0
             protoIdx == Index(up1, <<":", "/", "/">>)
             proto == IF protoIdx >= 0 THEN Upto(up1, protoIdx) ELSE ProtoUdp
             up2 == IF protoIdx >= 0 THEN From(up1, protoIdx + 3) ELSE up1
         IN  SetUpstreamFrom(upstream, i + 1,
                             Put(cl, domain, [Net |-> proto, Timeout |-> ClientTimeout]),
                             Put(sv, domain, up2))

SetUpstream(upstream) == SetUpstreamFrom(upstream, 1, EmptyMap, EmptyMap)

\* main(): the default upstream when no -upstream was given
DefaultUpstream ==
    <<"t", "c", "p", "-", "t", "l", "s", ":", "/", "/",
      "1", ".", "1", ".", "1", ".", "1", ":", "8", "5", "3">>

MainUpstream(upstream) == IF Len(upstream) = 0 THEN <<DefaultUpstream>> ELSE upstream

NoRoute == "errNoUpstream"

\* the for loop of upstreamExchange: the suffix whose client is used, or NoRoute
RECURSIVE routeLoop(_, _, _)
routeLoop(cl, dotIdx, domain0) ==
    IF dotIdx < 0 THEN NoRoute
    ELSE LET domain == From(domain0, dotIdx)
         IN  IF domain \in DOMAIN cl THEN domain
             ELSE LET domain1 == IF dotIdx > 0 THEN From(domain, 1) ELSE domain
                  IN  routeLoop(cl, Index(domain1, Dot), domain1)

\* a mutation of upstreamExchange: the wildcard is consulted before the scoped routes
upstreamRouteWildcardFirst(cl, name) ==
    IF <<>> \in DOMAIN cl THEN <<>>
    ELSE routeLoop(cl, 0, TrimSuffix(name, Dot))

\* upstreamExchange up to the call of Exchange: the key of the client and server
\* that are used, or NoRoute when the function returns errNoUpstream
upstreamRoute(cl, name) ==
    LET scoped == routeLoop(cl, 0, TrimSuffix(name, Dot))
    IN  IF scoped # NoRoute THEN scoped
        ELSE IF <<>> \in DOMAIN cl THEN <<>>
        ELSE NoRoute

-----------------------------------------------------------------------------
(* Addresses and reverse names (net.IP.String and dns.ReverseAddr, as called *)
(* on lines 176-182)                                                         *)

Digits == <<"0", "1", "2", "3", "4", "5", "6", "7", "8", "9">>
HexDigits == Digits \o <<"a", "b", "c", "d", "e", "f">>

\* strconv.Itoa
RECURSIVE Itoa(_)
Itoa(n) == IF n < 10 THEN <<Digits[n + 1]>> ELSE Itoa(n \div 10) \o <<Digits[(n % 10) + 1]>>

InAddrArpa == <<"i", "n", "-", "a", "d", "d", "r", ".", "a", "r", "p", "a", ".">>
Ip6Arpa == <<"i", "p", "6", ".", "a", "r", "p", "a", ".">>

\* net.IP.To4: the four bytes of an IPv4 or IPv4-mapped address, else <<>>
To4(ip) ==
    IF Len(ip) = 4 THEN ip
    ELSE IF Len(ip) = 16 /\ (\A i \in 1..10 : ip[i] = 0) /\ ip[11] = 255 /\ ip[12] = 255
         THEN SubSeq(ip, 13, 16)
         ELSE <<>>

RECURSIVE ReverseV4(_, _)
ReverseV4(ip, i) ==
    IF i = 0 THEN InAddrArpa ELSE Itoa(ip[i]) \o Dot \o ReverseV4(ip, i - 1)

RECURSIVE ReverseV6(_, _)
ReverseV6(ip, i) ==
    IF i = 0 THEN Ip6Arpa
    ELSE <<HexDigits[(ip[i] % 16) + 1], ".", HexDigits[(ip[i] \div 16) + 1], ".">>
         \o ReverseV6(ip, i - 1)

ReverseErr == "err"

\* dns.ReverseAddr(ip.String()): the reverse name, or ReverseErr when the text
\* of the address does not parse as an address (a record without a valid address)
ReverseAddr(ip) ==
    IF To4(ip) # <<>> THEN ReverseV4(To4(ip), 4)
    ELSE IF Len(ip) = 16 THEN ReverseV6(ip, 16)
    ELSE ReverseErr

-----------------------------------------------------------------------------
(* Messages *)

\* Ttl of the synthesized PTR record
PtrTtl == 300

NoMsg == [nil |-> TRUE]

Question(name, qtype, qclass) == [Name |-> name, Qtype |-> qtype, Qclass |-> qclass]

\* the PTR answer of a cache hit (lines 136-142)
CachedMsg(r, v) ==
    LET q == r.Question[1]
    IN  [Id |-> r.Id, Response |-> TRUE, RecursionDesired |-> r.RecursionDesired,
         RecursionAvailable |-> TRUE, Rcode |-> "NOERROR", Question |-> r.Question,
         Answer |-> <<[Name |-> q.Name, Class |-> q.Qclass, Rrtype |-> q.Qtype,
                       Ttl |-> PtrTtl, Ptr |-> v]>>]

\* a mutation of the refusal: the transaction id is not copied
RefusalMsgNoId(r) ==
    [Id |-> 0, Response |-> TRUE, RecursionDesired |-> FALSE,
     RecursionAvailable |-> FALSE, Rcode |-> "SERVFAIL", Question |-> <<>>,
     Answer |-> <<>>]

\* the reply to a query that does not want recursion (lines 149-150)
RefusalMsg(r) ==
    [Id |-> r.Id, Response |-> TRUE, RecursionDesired |-> FALSE,
     RecursionAvailable |-> FALSE, Rcode |-> "SERVFAIL", Question |-> <<>>,
     Answer |-> <<>>]

\* the reply to a failed forward (lines 159-165)
FailureMsg(r) ==
    [Id |-> r.Id, Response |-> TRUE, RecursionDesired |-> r.RecursionDesired,
     RecursionAvailable |-> TRUE, Rcode |-> "SERVFAIL", Question |-> r.Question,
     Answer |-> <<>>]

\* what cl.Exchange returns on success: the upstream's reply to r
UpstreamMsg(r, answer) ==
    [Id |-> r.Id, Response |-> TRUE, RecursionDesired |-> r.RecursionDesired,
     RecursionAvailable |-> TRUE, Rcode |-> "NOERROR", Question |-> r.Question,
     Answer |-> answer]

\* the kinds of error upstreamExchange returns: a *net.OpError, the error made
\* on line 111, and any other error value (a timeout, a bad id, a short read)
ErrKinds == {"OpError", "errNoUpstream", "Other"}

\* `type errNoUpstream error` is an interface type with the method set of error:
\* the case on line 157 matches every error value that has an Error method
ImplementsErrNoUpstream(kind) == kind \in ErrKinds

\* a mutation of the type switch: only a *net.OpError is answered
RepliesToErrorOpOnly(kind) == kind = "OpError"

\* the type switch of lines 156-166: whether the failure is answered
RepliesToError(kind) == kind = "OpError" \/ ImplementsErrNoUpstream(kind)

-----------------------------------------------------------------------------
(* Debounce Gate *)

\* net.IP.String of an IPv4 address: dotted decimal
IPString(ip) == Itoa(ip[1]) \o Dot \o Itoa(ip[2]) \o Dot \o Itoa(ip[3]) \o Dot \o Itoa(ip[4])

\* a mutation of the key: a.String(), which ends with the source port
DebounceKeyWithPort(a) == IPString(a.IP) \o <<":">> \o Itoa(a.Port)

\* line 43: ip := a.IP.String()
DebounceKey(a) == IPString(a.IP)

\* a mutation of line 57: inside the window the count is not decremented
checkNoDoSVerdictNoCount(has, lastReply, t) ==
    IF has
    THEN IF t < lastReply.tm + DebounceDelay
         THEN IF lastReply.cnt <= 0
              THEN [ok |-> FALSE, cnt |-> lastReply.cnt]
              ELSE [ok |-> TRUE, cnt |-> lastReply.cnt]
         ELSE [ok |-> TRUE, cnt |-> DebounceCount]
    ELSE [ok |-> TRUE, cnt |-> DebounceCount]

\* a mutation of line 59: after the window the count restarts one too high
checkNoDoSVerdictResetAbove(has, lastReply, t) ==
    IF has
    THEN IF t < lastReply.tm + DebounceDelay
         THEN IF lastReply.cnt <= 0
              THEN [ok |-> FALSE, cnt |-> lastReply.cnt]
              ELSE [ok |-> TRUE, cnt |-> lastReply.cnt - 1]
         ELSE [ok |-> TRUE, cnt |-> DebounceCount + 1]
    ELSE [ok |-> TRUE, cnt |-> DebounceCount]

\* a mutation of line 54: one more reply before the count runs out
checkNoDoSVerdictOffByOne(has, lastReply, t) ==
    IF has
    THEN IF t < lastReply.tm + DebounceDelay
         THEN IF lastReply.cnt < 0
              THEN [ok |-> FALSE, cnt |-> lastReply.cnt]
              ELSE [ok |-> TRUE, cnt |-> lastReply.cnt - 1]
         ELSE [ok |-> TRUE, cnt |-> DebounceCount]
    ELSE [ok |-> TRUE, cnt |-> DebounceCount]

\* lines 50-63: whether the reply is allowed and the count that is stored;
\* t is time.Now() of line 51
checkNoDoSVerdict(has, lastReply, t) ==
    IF has
    THEN IF t < lastReply.tm + DebounceDelay
         THEN IF lastReply.cnt <= 0
              THEN [ok |-> FALSE, cnt |-> lastReply.cnt]
              ELSE [ok |-> TRUE, cnt |-> lastReply.cnt - 1]
         ELSE [ok |-> TRUE, cnt |-> DebounceCount]
    ELSE [ok |-> TRUE, cnt |-> DebounceCount]

\* a mutation of line 42: every remote address is treated as a *net.UDPAddr
IsUDPAddrAny(a) == TRUE

\* line 42: a, ok := remAddr.(*net.UDPAddr)
IsUDPAddr(a) == a.Net = "udp"

\* a mutation of lines 54-56: a denied attempt stores a new time in the entry
DeniedTableTouched(table, ip, t) ==
    [table EXCEPT !.m = Put(@, ip, [tm |-> t, cnt |-> @[ip].cnt])]

\* lines 54-56: the table after a denied attempt, which returns without a store
DeniedTable(table, ip, t) == table

\* a mutation of lines 115-118: the result of checkNoDoS is ignored
AfterGateIgnored(ok) == "nilCheck"

\* lines 115-118: where ServeDNS goes after checkNoDoS returned ok
AfterGate(ok) == IF ok THEN "nilCheck" ELSE "done"

-----------------------------------------------------------------------------
(* State of the handler and of the ServeDNS goroutines *)

Goroutines == {1, 2}

NoHolder == 0

\* a Go map field: nil, or a map
NilMap == [nil |-> TRUE, m |-> EmptyMap]
MakeMap == [nil |-> FALSE, m |-> EmptyMap]

\* handler.StoreDB: nil when no -store was given, else the open store
NoDB == [open |-> FALSE, kv |-> EmptyMap]
OpenDB(kv) == [open |-> TRUE, kv |-> kv]

NoAddr == [Net |-> "none", IP |-> <<>>, Port |-> 0]
NoEntry == [tm |-> 0, cnt |-> 0]

IdleG == [pc |-> "idle", w |-> NoAddr, r |-> NoMsg, gate |-> "none", branch |-> "none",
          cnt |-> 0, resp |-> NoMsg, idx |-> 0, written |-> <<>>, did |-> {},
          wrote |-> {}, after |-> EmptyMap, heard |-> EmptyMap]

\* ReadDb, lines 211-232: every key of the store is copied into a new map
ReadDb(kv) == [nil |-> FALSE, m |-> [k \in DOMAIN kv |-> kv[k]]]

NewHist(restored) ==
    [run |-> EmptyMap,          \* ip -> replies allowed since the count was last reset
     lastAllowed |-> EmptyMap,  \* ip -> time of the last allowed reply
     lastWrite |-> EmptyMap,    \* reverse name -> forward name last written to the cache
     restored |-> restored,     \* what ReadDb loaded when the process started
     answered |-> EmptyMap,     \* reverse name -> name answered from the cache since the
                                \* last cache write
     settled |-> EmptyMap,      \* reverse name -> forward name, written by a forward that
                                \* has replied, and not written again since
     denied |-> EmptyMap,       \* ip -> replies denied since the last allowed reply
     times |-> EmptyMap,        \* ip -> the times of its allowed replies, when traced
     failed |-> {}]             \* the reverse names whose store write failed

\* the state main() leaves when it starts serving: lines 255-276, 311-324
MainInit(upstream, store, delay, count) ==
    /\ clients = SetUpstream(MainUpstream(upstream)).clients
    /\ servers = SetUpstream(MainUpstream(upstream)).servers
    /\ StoreDB = store
    /\ ptrMap = IF store.open THEN ReadDb(store.kv) ELSE NilMap
    /\ lastResultSent = NilMap
    /\ lastResultSentLock = NoHolder
    /\ ptrMapLock = NoHolder
    /\ DebounceDelay = delay
    /\ DebounceCount = count
    /\ running = TRUE
    /\ now = 0
    /\ g = [h \in Goroutines |-> IdleG]
    /\ hist = NewHist(IF store.open THEN store.kv ELSE EmptyMap)

Set(h, rec) == g' = [g EXCEPT ![h] = rec]

-----------------------------------------------------------------------------
(* ServeDNS, one action per step between two points where another goroutine *)
(* can run                                                                  *)

\* the server starts a goroutine for a decoded query q = [w, r]
Start(h, q) ==
    /\ running /\ g[h].pc = "idle" /\ budget.queries > 0
    /\ budget' = [budget EXCEPT !.queries = @ - 1]
    /\ Set(h, [IdleG EXCEPT !.pc = "gate", !.w = q.w, !.r = q.r, !.after = hist.settled,
                          !.heard = hist.answered])
    /\ UNCHANGED <<clients, servers, ptrMap, lastResultSent, lastResultSentLock,
                   ptrMapLock, DebounceDelay, DebounceCount, StoreDB, running, now,
                   hist, rq>>

\* checkNoDoS, lines 41-45: only a *net.UDPAddr takes the lock
GateLock(h) ==
    /\ running /\ g[h].pc = "gate"
    /\ IF IsUDPAddr(g[h].w)
       THEN /\ lastResultSentLock = NoHolder
            /\ lastResultSentLock' = h
            /\ Set(h, [g[h] EXCEPT !.pc = "gateCheck"])
       ELSE /\ UNCHANGED lastResultSentLock
            /\ Set(h, [g[h] EXCEPT !.pc = AfterGate(TRUE), !.gate = "allowed"])
    /\ UNCHANGED <<clients, servers, ptrMap, lastResultSent, ptrMapLock, DebounceDelay,
                   DebounceCount, StoreDB, running, now, budget, hist, rq>>

\* checkNoDoS, lines 47-56: the table is made, the entry read, the reply denied
GateCheck(h) ==
    /\ running /\ g[h].pc = "gateCheck"
    /\ LET table == IF lastResultSent.nil THEN MakeMap ELSE lastResultSent
           ip == DebounceKey(g[h].w)
           has == ip \in DOMAIN table.m
           v == checkNoDoSVerdict(has, IF has THEN table.m[ip] ELSE NoEntry, now)
           src == g[h].w.IP
           branch == IF src \notin DOMAIN hist.lastAllowed THEN "new"
                     ELSE IF now < hist.lastAllowed[src] + DebounceDelay THEN "window"
                     ELSE "elapsed"
       IN  /\ lastResultSent' = IF v.ok THEN table ELSE DeniedTable(table, ip, now)
           /\ IF v.ok
              THEN /\ Set(h, [g[h] EXCEPT !.pc = "gateStore", !.cnt = v.cnt,
                                          !.branch = branch])
                   /\ UNCHANGED <<lastResultSentLock, hist>>
              ELSE /\ Set(h, [g[h] EXCEPT !.pc = AfterGate(FALSE), !.gate = "denied",
                                          !.branch = branch])
                   /\ lastResultSentLock' = NoHolder
                   /\ hist' = [hist EXCEPT
                        !.denied = Put(@, src, (IF src \in DOMAIN @ THEN @[src] ELSE 0) + 1)]
    /\ UNCHANGED <<clients, servers, ptrMap, ptrMapLock, DebounceDelay, DebounceCount,
                   StoreDB, running, now, budget, rq>>

\* checkNoDoS, lines 57-65: the entry is stored with a second time.Now()
GateStore(h) ==
    /\ running /\ g[h].pc = "gateStore"
    /\ LET ip == DebounceKey(g[h].w)
           src == g[h].w.IP
       IN  /\ lastResultSent' = [lastResultSent EXCEPT
                                   !.m = Put(@, ip, [tm |-> now, cnt |-> g[h].cnt])]
           /\ hist' = [hist EXCEPT
                         !.run = Put(@, src, IF g[h].branch = "window" /\ src \in DOMAIN @
                                             THEN @[src] + 1 ELSE 1),
                         !.lastAllowed = Put(@, src, now),
                         !.denied = Put(@, src, 0),
                         !.times = IF budget.trace
                                  THEN Put(@, src, (IF src \in DOMAIN @ THEN @[src] ELSE <<>>)
                                                   \o <<now>>)
                                  ELSE @]
    /\ lastResultSentLock' = NoHolder
    /\ Set(h, [g[h] EXCEPT !.pc = AfterGate(TRUE), !.gate = "allowed"])
    /\ UNCHANGED <<clients, servers, ptrMap, ptrMapLock, DebounceDelay, DebounceCount,
                   StoreDB, running, now, budget, rq>>

\* line 119: h.ptrMap == nil, read without a lock
NilCheck(h) ==
    /\ running /\ g[h].pc = "nilCheck"
    /\ Set(h, [g[h] EXCEPT !.pc = IF ptrMap.nil THEN "mkMap" ELSE "lookup"])
    /\ UNCHANGED <<clients, servers, ptrMap, lastResultSent, lastResultSentLock,
                   ptrMapLock, DebounceDelay, DebounceCount, StoreDB, running, now,
                   budget, hist, rq>>

\* line 120: h.ptrMap = make(map[string]string), written without a lock
MkMap(h) ==
    /\ running /\ g[h].pc = "mkMap"
    /\ ptrMap' = MakeMap
    /\ Set(h, [g[h] EXCEPT !.pc = "lookup",
                          !.did = IF ptrMap.m # EmptyMap THEN @ \cup {"cacheLost"} ELSE @])
    /\ UNCHANGED <<clients, servers, lastResultSent, lastResultSentLock, ptrMapLock,
                   DebounceDelay, DebounceCount, StoreDB, running, now, budget, hist, rq>>


\* another goroutine is between Lock and Unlock of lines 187-189
WriterActive(h) == \E o \in Goroutines \ {h} : g[o].pc = "ptrWrite"

\* what the unlocked map read of line 132 can do: it reads the map; while
\* another goroutine writes the map it is a data race, and then it can also miss
\* the key or end the process ("concurrent map read and map write")
MapReads(h) == IF WriterActive(h) THEN {"read", "miss", "fatal"} ELSE {"read"}

IsPtrIn(q) == q.Qtype = "PTR" /\ q.Qclass = "IN"

\* lines 122-152: the question guard, the cache lookup and the recursion policy
Lookup(h) ==
    /\ running /\ g[h].pc = "lookup"
    /\ LET r == g[h].r IN
       IF Len(r.Question) < 1
       THEN /\ Set(h, [g[h] EXCEPT !.pc = "done"])
            /\ UNCHANGED <<running, hist>>
       ELSE LET q == r.Question[1] IN
            \E rd \in (IF IsPtrIn(q) THEN MapReads(h) ELSE {"none"}) :
              LET has == rd = "read" /\ q.Name \in DOMAIN ptrMap.m
                  did == IF IsPtrIn(q) THEN g[h].did \cup {"lookup"} ELSE g[h].did
              IN  IF rd = "fatal"
                  THEN /\ running' = FALSE
                       /\ UNCHANGED <<g, hist>>
                  ELSE /\ UNCHANGED running
                       /\ IF has
                          THEN /\ Set(h, [g[h] EXCEPT
                                   !.pc = "done", !.did = did \cup {"response"},
                                   !.written = Append(@, CachedMsg(r, ptrMap.m[q.Name]))])
                               /\ hist' = [hist EXCEPT
                                   !.answered = Put(@, q.Name, ptrMap.m[q.Name])]
                          ELSE /\ UNCHANGED hist
                               /\ IF ~r.RecursionDesired
                                  THEN Set(h, [g[h] EXCEPT
                                         !.pc = "done", !.did = did \cup {"response"},
                                         !.written = Append(@, RefusalMsg(r))])
                                  ELSE Set(h, [g[h] EXCEPT !.pc = "exchange", !.did = did])
    /\ UNCHANGED <<clients, servers, ptrMap, lastResultSent, lastResultSentLock,
                   ptrMapLock, DebounceDelay, DebounceCount, StoreDB, now, budget, rq>>

\* what the upstream can do with a forwarded query: an error, or a reply
\* with one of the answer sections
Outcome(err, answer) == [err |-> err, answer |-> answer]

\* lines 153-171: upstreamExchange, and the reply to a failure
Exchange(h, outcomes) ==
    /\ running /\ g[h].pc = "exchange"
    /\ LET r == g[h].r
           route == upstreamRoute(clients, r.Question[1].Name)
       IN  \E o \in (IF route = NoRoute THEN {Outcome("errNoUpstream", <<>>)} ELSE outcomes) :
             LET did == IF route = NoRoute THEN g[h].did ELSE g[h].did \cup {"exchange"}
             IN  IF o.err # "nil"
                 THEN IF RepliesToError(o.err)
                      THEN Set(h, [g[h] EXCEPT
                             !.pc = "done", !.did = did \cup {"response", o.err},
                             !.written = Append(@, FailureMsg(r))])
                      ELSE Set(h, [g[h] EXCEPT !.pc = "done", !.did = did \cup {o.err}])
                 ELSE Set(h, [g[h] EXCEPT !.pc = "answers", !.did = did, !.idx = 1,
                                          !.resp = UpstreamMsg(r, o.answer)])
    /\ UNCHANGED <<clients, servers, ptrMap, lastResultSent, lastResultSentLock,
                   ptrMapLock, DebounceDelay, DebounceCount, StoreDB, running, now,
                   budget, hist, rq>>

\* lines 173-186: whether the record is an address whose reverse name is cached
Cacheable(answ) == answ.Rrtype \in {"A", "AAAA"} /\ ReverseAddr(answ.ip) # ReverseErr

\* the records the loop passes with `continue`: the index of the next record
\* that is cached, or one past the last record
RECURSIVE NextCached(_, _)
NextCached(answer, i) ==
    IF i > Len(answer) \/ Cacheable(answer[i]) THEN i ELSE NextCached(answer, i + 1)

\* lines 172-187 and 204: the loop up to the next address record, which takes
\* ptrMapLock; after the last record the upstream's reply is written
Answers(h) ==
    /\ running /\ g[h].pc = "answers"
    /\ IF NextCached(g[h].resp.Answer, g[h].idx) > Len(g[h].resp.Answer)
       THEN /\ Set(h, [g[h] EXCEPT !.pc = "done", !.did = @ \cup {"response"},
                                   !.written = Append(@, g[h].resp)])
            /\ hist' = [hist EXCEPT !.settled =
                  [k \in (DOMAIN @) \cup {x \in g[h].wrote :
                                            hist.lastWrite[x] = g[h].r.Question[1].Name}
                     |-> hist.lastWrite[k]]]
            /\ UNCHANGED ptrMapLock
       ELSE /\ ptrMapLock = NoHolder
            /\ ptrMapLock' = h
            /\ Set(h, [g[h] EXCEPT !.pc = "ptrWrite",
                                   !.idx = NextCached(g[h].resp.Answer, @)])
            /\ UNCHANGED hist
    /\ UNCHANGED <<clients, servers, ptrMap, lastResultSent, lastResultSentLock,
                   DebounceDelay, DebounceCount, StoreDB, running, now, budget, rq>>

\* a mutation of line 189: the unlock is deferred to the return of ServeDNS
PtrMapUnlockDeferred(h) == h

\* line 189: h.ptrMapLock.Unlock(), the holder of the lock after the map write
PtrMapUnlock(h) == NoHolder

\* lines 188-190: the map write and the unlock
PtrWrite(h) ==
    /\ running /\ g[h].pc = "ptrWrite"
    /\ LET ptr == ReverseAddr(g[h].resp.Answer[g[h].idx].ip)
           name == g[h].r.Question[1].Name
       IN  /\ ptrMap' = [ptrMap EXCEPT !.m = Put(@, ptr, name)]
           /\ hist' = [hist EXCEPT !.lastWrite = Put(@, ptr, name), !.answered = EmptyMap,
                                   !.settled = Remove(@, ptr)]
           /\ g' = [o \in Goroutines |->
                     IF o = h
                     THEN [g[h] EXCEPT !.did = @ \cup {"cacheWrite"},
                                       !.wrote = @ \cup {ptr},
                                       !.pc = IF StoreDB.open THEN "storeUpdate" ELSE "answers",
                                       !.idx = IF StoreDB.open THEN @ ELSE @ + 1]
                     ELSE [g[o] EXCEPT !.after = Remove(@, ptr), !.heard = EmptyMap]]
    /\ ptrMapLock' = PtrMapUnlock(h)
    /\ UNCHANGED <<clients, servers, lastResultSent, lastResultSentLock, DebounceDelay,
                   DebounceCount, StoreDB, running, now, budget, rq>>

\* lines 190-199: the transaction on the durable store, which can fail
StoreUpdate(h) ==
    /\ running /\ g[h].pc = "storeUpdate"
    /\ LET ptr == ReverseAddr(g[h].resp.Answer[g[h].idx].ip)
           name == g[h].r.Question[1].Name
       IN  \E ok \in BOOLEAN :
             /\ StoreDB' = IF ok THEN [StoreDB EXCEPT !.kv = Put(@, ptr, name)] ELSE StoreDB
             /\ hist' = IF ok THEN hist ELSE [hist EXCEPT !.failed = @ \cup {ptr}]
             /\ Set(h, [g[h] EXCEPT !.pc = "answers", !.idx = @ + 1,
                          !.did = @ \cup {IF ok THEN "storeWrite" ELSE "storeError"}])
    /\ UNCHANGED <<clients, servers, ptrMap, lastResultSent, lastResultSentLock,
                   ptrMapLock, DebounceDelay, DebounceCount, running, now, budget, rq>>

\* ServeDNS returns and the goroutine ends
Return(h) ==
    /\ running /\ g[h].pc = "done"
    /\ Set(h, IdleG)
    /\ UNCHANGED <<clients, servers, ptrMap, lastResultSent, lastResultSentLock,
                   ptrMapLock, DebounceDelay, DebounceCount, StoreDB, running, now,
                   budget, hist, rq>>

\* time passes
Tick ==
    /\ now < budget.time
    /\ now' = now + 1
    /\ UNCHANGED <<clients, servers, ptrMap, lastResultSent, lastResultSentLock,
                   ptrMapLock, DebounceDelay, DebounceCount, StoreDB, running, g,
                   budget, hist, rq>>

\* the process ends (a signal, or the abort of a data race) and is started again
\* with the same flags: main() up to the listeners; ReadDb fails when the store
\* cannot be opened, and log.Fatalf ends the process
Restart ==
    /\ budget.restarts > 0
    /\ budget' = [budget EXCEPT !.restarts = @ - 1]
    /\ \E opened \in (IF StoreDB.open THEN BOOLEAN ELSE {TRUE}) :
         /\ running' = opened
         /\ ptrMap' = IF StoreDB.open /\ opened THEN ReadDb(StoreDB.kv) ELSE NilMap
         /\ hist' = NewHist(IF StoreDB.open /\ opened THEN StoreDB.kv ELSE EmptyMap)
    /\ lastResultSent' = NilMap
    /\ lastResultSentLock' = NoHolder
    /\ ptrMapLock' = NoHolder
    /\ g' = [h \in Goroutines |-> IdleG]
    /\ UNCHANGED <<clients, servers, DebounceDelay, DebounceCount, StoreDB, now, rq>>

-----------------------------------------------------------------------------
(* Clients, upstreams and configurations *)

MaxQueries == 4
MaxAttempts == 4
MaxStored == 3
MaxTime == 2
MaxLabels == 3
MaxRoutes == 3
MaxFull == 3
MaxRate == 5
MaxSync == 2

Udp(ip, port) == [Net |-> "udp", IP |-> ip, Port |-> port]
Tcp(ip, port) == [Net |-> "tcp", IP |-> ip, Port |-> port]

HostName == <<"h", ".", "c", ".">>
LostName == <<"x", ".">>

Addr4 == <<1, 2, 3, 4>>
Addr4Mapped == <<0, 0, 0, 0, 0, 0, 0, 0, 0, 0, 255, 255, 1, 2, 3, 4>>
Addr6 == <<32, 1, 13, 184, 0, 0, 0, 0, 0, 0, 0, 0, 0, 0, 0, 1>>

A(ip) == [Rrtype |-> "A", ip |-> ip]
AAAA(ip) == [Rrtype |-> "AAAA", ip |-> ip]
CNAME == [Rrtype |-> "CNAME", ip |-> <<>>]

Query(w, id, rd, question) ==
    [w |-> w, r |-> [Id |-> id, RecursionDesired |-> rd, Question |-> question]]

\* -upstream .c=udp://9.9
ScopedUpstream == <<<<".", "c", "=", "u", "d", "p", ":", "/", "/", "9", ".", "9">>>>

NoRq == [name |-> <<>>, route |-> NoRoute]

\* the queries that ask for recursion: an address, a reverse name
Recursive(w) ==
    {Query(w, 7, TRUE, <<Question(HostName, "A", "IN")>>),
     Query(w, 9, TRUE, <<Question(ReverseAddr(Addr4), "PTR", "IN")>>)}

\* the other kinds of message: no recursion, no route for the name, no question
Others(w) ==
    {Query(w, 8, FALSE, <<Question(HostName, "A", "IN")>>),
     Query(w, 10, FALSE, <<Question(ReverseAddr(Addr4), "PTR", "IN")>>),
     Query(w, 12, TRUE, <<Question(LostName, "A", "IN")>>),
     Query(w, 13, TRUE, <<>>)}

Queries ==
    Recursive(Tcp(<<10, 0, 0, 1>>, 1001)) \cup Others(Tcp(<<10, 0, 0, 1>>, 1001))
    \cup Recursive(Udp(<<10, 0, 0, 1>>, 1001))

Upstreams ==
    {Outcome("OpError", <<>>), Outcome("Other", <<>>),
     Outcome("nil", <<CNAME, A(Addr4), A(<<>>)>>)}

\* the attempts on the gate: one message from every kind of source
Attempts ==
    {Query(w, 8, FALSE, <<Question(HostName, "A", "IN")>>) :
        w \in {Udp(<<10, 0, 0, 1>>, 1001), Udp(<<10, 0, 0, 1>>, 1002), Udp(<<10, 0, 0, 2>>, 1001),
               Tcp(<<10, 0, 0, 1>>, 1001)}}

-----------------------------------------------------------------------------
(* The request pipeline under every kind of message *)

Init ==
    /\ MainInit(ScopedUpstream, NoDB, 2, 0)
    /\ budget = [queries |-> MaxQueries, restarts |-> 0, time |-> 0, trace |-> FALSE]
    /\ rq = NoRq

Next ==
    \/ \E h \in Goroutines : \E q \in Queries : Start(h, q)
    \/ \E h \in Goroutines : GateLock(h)
    \/ \E h \in Goroutines : GateCheck(h)
    \/ \E h \in Goroutines : GateStore(h)
    \/ \E h \in Goroutines : NilCheck(h)
    \/ \E h \in Goroutines : MkMap(h)
    \/ \E h \in Goroutines : Lookup(h)
    \/ \E h \in Goroutines : Exchange(h, Upstreams)
    \/ \E h \in Goroutines : Answers(h)
    \/ \E h \in Goroutines : PtrWrite(h)
    \/ \E h \in Goroutines : Return(h)

Spec == Init /\ [][Next]_vars

-----------------------------------------------------------------------------
(* The debounce gate under attempts from several sources while time passes *)

InitGate ==
    /\ \E delay \in {1, 2}, count \in {0, 1} : MainInit(ScopedUpstream, NoDB, delay, count)
    /\ budget = [queries |-> MaxAttempts, restarts |-> 0, time |-> MaxTime, trace |-> FALSE]
    /\ rq = NoRq

NextGate ==
    \/ \E h \in Goroutines : \E q \in Attempts : Start(h, q)
    \/ \E h \in Goroutines : GateLock(h)
    \/ \E h \in Goroutines : GateCheck(h)
    \/ \E h \in Goroutines : GateStore(h)
    \/ \E h \in Goroutines : NilCheck(h)
    \/ \E h \in Goroutines : MkMap(h)
    \/ \E h \in Goroutines : Lookup(h)
    \/ \E h \in Goroutines : Return(h)
    \/ Tick

SpecGate == InitGate /\ [][NextGate]_vars

-----------------------------------------------------------------------------
(* The upstream router under every small route table and query name *)

RouteLabels == {<<"a">>, <<"b">>, <<"a", "b">>}

\* a name as the codec returns it: its labels, each followed by a dot; the root is "."
RECURSIVE Fqdn(_)
Fqdn(labels) ==
    IF Len(labels) = 0 THEN <<>> ELSE labels[1] \o Dot \o Fqdn(Tail(labels))

RECURSIVE SeqsUpTo(_, _)
SeqsUpTo(S, n) ==
    IF n = 0 THEN {<<>>}
    ELSE LET shorter == SeqsUpTo(S, n - 1)
         IN  shorter \cup {Append(s, x) : s \in shorter, x \in S}

LabelSeqs == SeqsUpTo(RouteLabels, MaxLabels)

NameOf(labels) == IF Len(labels) = 0 THEN Dot ELSE Fqdn(labels)

\* values of -upstream: .b=udp://U  b=V  .a.b=tcp://W  =X  Y  .ab=Z  a.b=Q
RouteArgs ==
    {<<".", "b", "=", "u", "d", "p", ":", "/", "/", "U">>,
     <<"b", "=", "V">>,
     <<".", "a", ".", "b", "=", "t", "c", "p", ":", "/", "/", "W">>,
     <<"=", "X">>,
     <<"Y">>,
     <<".", "a", "b", "=", "Z">>,
     <<"a", ".", "b", "=", "Q">>}

InitRoute ==
    /\ \E upstream \in SeqsUpTo(RouteArgs, MaxRoutes) \ {<<>>} :
         MainInit(upstream, NoDB, 0, 0)
    /\ budget = [queries |-> 0, restarts |-> 0, time |-> 0, trace |-> FALSE]
    /\ \E labels \in LabelSeqs : rq = [name |-> NameOf(labels), route |-> "pending"]

\* upstreamExchange is called for the name
RouteExchange ==
    /\ rq.route = "pending"
    /\ rq' = [rq EXCEPT !.route = upstreamRoute(clients, rq.name)]
    /\ UNCHANGED <<clients, servers, ptrMap, lastResultSent, lastResultSentLock,
                   ptrMapLock, DebounceDelay, DebounceCount, StoreDB, running, now, g,
                   budget, hist>>

\* the next query name
RouteAsk ==
    /\ rq.route # "pending"
    /\ \E labels \in LabelSeqs : rq' = [name |-> NameOf(labels), route |-> "pending"]
    /\ UNCHANGED <<clients, servers, ptrMap, lastResultSent, lastResultSentLock,
                   ptrMapLock, DebounceDelay, DebounceCount, StoreDB, running, now, g,
                   budget, hist>>

NextRoute == RouteExchange \/ RouteAsk

SpecRoute == InitRoute /\ [][NextRoute]_vars

-----------------------------------------------------------------------------
(* The passive cache with a durable store, over a restart of the process *)

StoreUpstreams ==
    {Outcome("nil", <<AAAA(Addr6), AAAA(Addr4Mapped)>>), Outcome("OpError", <<>>)}

InitStore ==
    /\ MainInit(ScopedUpstream, OpenDB(EmptyMap), 2, 0)
    /\ budget = [queries |-> MaxStored, restarts |-> 1, time |-> 0, trace |-> FALSE]
    /\ rq = NoRq

NextStore ==
    \/ \E h \in Goroutines : \E q \in Recursive(Tcp(<<10, 0, 0, 1>>, 1001)) : Start(h, q)
    \/ \E h \in Goroutines : GateLock(h)
    \/ \E h \in Goroutines : NilCheck(h)
    \/ \E h \in Goroutines : Lookup(h)
    \/ \E h \in Goroutines : Exchange(h, StoreUpstreams)
    \/ \E h \in Goroutines : Answers(h)
    \/ \E h \in Goroutines : PtrWrite(h)
    \/ \E h \in Goroutines : StoreUpdate(h)
    \/ \E h \in Goroutines : Return(h)
    \/ Restart

SpecStore == InitStore /\ [][NextStore]_vars

-----------------------------------------------------------------------------
(* Properties *)

\* goroutine h leaves the program point pc in this step
Leaves(h, pc) == g[h].pc = pc /\ g'[h].pc # pc

\* C1: from a source IP without an entry, in a run of connectionless attempts
\* that each come before (last allowed time + DebounceDelay), exactly the first
\* DebounceCount + 1 are allowed and every later one is denied; the first attempt
\* at or after (last allowed time + DebounceDelay) is allowed again and stores
\* the count DebounceCount, however many attempts were denied in between
C1_DebounceSequence ==
    [][\A h \in Goroutines :
         LET src == g[h].w.IP
             inWindow == /\ src \in DOMAIN hist.lastAllowed
                         /\ now < hist.lastAllowed[src] + DebounceDelay
         IN  /\ Leaves(h, "gateCheck") =>
                  ((g'[h].gate # "denied") <=>
                      (~inWindow \/ hist.run[src] < DebounceCount + 1))
             /\ (Leaves(h, "gateStore") /\ g[h].branch # "window") =>
                  /\ g'[h].gate = "allowed"
                  /\ lastResultSent'.m[IPString(src)].cnt = DebounceCount
                  /\ hist'.run[src] = 1]_vars

\* a source was denied, the window elapsed, and its next attempt is allowed
C1_Witness ==
    \E h \in Goroutines :
        /\ g[h].pc = "gateStore" /\ g[h].branch = "elapsed"
        /\ hist.denied[g[h].w.IP] >= 1
        /\ hist.run[g[h].w.IP] = DebounceCount + 1

\* C2: a connectionless query that the gate denies gets no response, and
\* ServeDNS does no cache lookup, no upstream exchange, no cache write and no
\* store write for it
C2_DeniedIsSilent ==
    \A h \in Goroutines :
        g[h].gate = "denied" =>
            /\ g[h].w.Net = "udp"
            /\ g[h].pc = "done"
            /\ g[h].written = <<>>
            /\ g[h].did = {}
            /\ g[h].wrote = {}

\* a denied query has returned while the other goroutine forwarded a query
C2_Witness ==
    \E h \in Goroutines, o \in Goroutines :
        /\ g[h].gate = "denied" /\ g[h].pc = "done"
        /\ "exchange" \in g[o].did

\* a query that passed the gate and carries a question
Handled(h) == g[h].gate = "allowed" /\ Len(g[h].r.Question) >= 1

\* C3, as stated: every query without recursion-desired that ServeDNS handles
\* is answered with a server failure carrying its transaction id, whatever the
\* cache holds and whatever the question type
C3_AsStated ==
    \A h \in Goroutines :
        (g[h].pc = "done" /\ Handled(h) /\ ~g[h].r.RecursionDesired) =>
            /\ Len(g[h].written) = 1
            /\ g[h].written[1].Rcode = "SERVFAIL"
            /\ g[h].written[1].Id = g[h].r.Id

\* C3, amended: a query without recursion-desired that passed the gate and
\* carries a question is never forwarded, and the one response written for it
\* carries its transaction id and is a server failure, or, for a PTR question
\* in the Internet class, the PTR record of the cache with Ttl 300
C3_NonRecursive ==
    \A h \in Goroutines :
        (Handled(h) /\ ~g[h].r.RecursionDesired) =>
            LET q == g[h].r.Question[1]
                out == g[h].written
            IN  /\ g[h].pc \in {"nilCheck", "mkMap", "lookup", "done"}
                /\ "exchange" \notin g[h].did
                /\ (g[h].pc # "done") => (out = <<>>)
                /\ (g[h].pc = "done") =>
                      /\ Len(out) = 1
                      /\ out[1].Id = g[h].r.Id
                      /\ out[1].Response
                      /\ \/ /\ out[1].Rcode = "SERVFAIL"
                            /\ out[1].Answer = <<>>
                         \/ /\ IsPtrIn(q)
                            /\ out[1].Rcode = "NOERROR"
                            /\ Len(out[1].Answer) = 1
                            /\ out[1].Answer[1].Name = q.Name
                            /\ out[1].Answer[1].Rrtype = "PTR"
                            /\ out[1].Answer[1].Ttl = PtrTtl

\* both replies to a query without recursion-desired: the cached PTR record
\* to one goroutine, the server failure to the other
C3_Witness ==
    \E h \in Goroutines, o \in Goroutines :
        /\ g[h].pc = "done" /\ ~g[h].r.RecursionDesired
        /\ Len(g[h].written) = 1 /\ g[h].written[1].Rcode = "NOERROR"
        /\ g[o].pc = "done" /\ ~g[o].r.RecursionDesired
        /\ Len(g[o].written) = 1 /\ g[o].written[1].Rcode = "SERVFAIL"


\* goroutine h does the cache lookup of a PTR question in the Internet class
\* in this step (the process is not ended in it), while no other goroutine is
\* writing that reverse name
PtrLookup(h) ==
    /\ Leaves(h, "lookup")
    /\ g'[h].pc # "idle"
    /\ Len(g[h].r.Question) >= 1
    /\ IsPtrIn(g[h].r.Question[1])
    /\ \A o \in Goroutines \ {h} :
          g[o].pc = "ptrWrite" =>
              ReverseAddr(g[o].resp.Answer[g[o].idx].ip) # g[h].r.Question[1].Name

\* the response is the one cached PTR record for the question, holding name
AnsweredFromCache(h, name) ==
    /\ g'[h].pc = "done"
    /\ "exchange" \notin g'[h].did
    /\ g'[h].written = <<CachedMsg(g[h].r, name)>>

\* C4: after a forwarded query for a name succeeded with an address record, a
\* later PTR query in the Internet class for the reverse name of the address,
\* made before any other answer wrote that reverse name, is answered with one
\* PTR record holding the name with Ttl 300, without an upstream exchange
C4_RoundTrip ==
    [][\A h \in Goroutines :
         (PtrLookup(h) /\ g[h].r.Question[1].Name \in DOMAIN g[h].after) =>
             AnsweredFromCache(h, g[h].after[g[h].r.Question[1].Name])]_vars

\* the labels of the name under test
LabelsOf(name) == CHOOSE labels \in LabelSeqs : NameOf(labels) = name

\* the labels joined by dots, without the dot of the root
RECURSIVE Dotted(_)
Dotted(labels) ==
    IF Len(labels) = 0 THEN <<>>
    ELSE IF Len(labels) = 1 THEN labels[1]
    ELSE labels[1] \o Dot \o Dotted(Tail(labels))

\* the full name, and each shorter suffix of labels with its leading dot
Candidates(labels) ==
    {Dotted(labels)} \cup
    {Dot \o Dotted(SubSeq(labels, i, Len(labels))) : i \in 2..Len(labels)}

ScopedMatches(labels) == {c \in Candidates(labels) : c \in DOMAIN clients /\ c # <<>>}

Longest(S) == CHOOSE c \in S : \A d \in S : Len(d) <= Len(c)

\* C5: upstreamExchange uses the route whose suffix is the longest candidate of
\* the query name that is configured; the wildcard only when no scoped route
\* matches; and returns the "no upstream" error without an exchange when there
\* is neither
C5_LongestSuffix ==
    rq.route # "pending" =>
        LET scoped == ScopedMatches(LabelsOf(rq.name))
        IN  IF scoped # {} THEN rq.route = Longest(scoped)
            ELSE IF <<>> \in DOMAIN clients THEN rq.route = <<>>
            ELSE rq.route = NoRoute

\* two scoped routes and the wildcard are configured, both scoped routes match
\* the name, and the longer one was used
C5_Witness ==
    /\ rq.route # "pending"
    /\ <<>> \in DOMAIN clients
    /\ Cardinality(ScopedMatches(LabelsOf(rq.name))) >= 2
    /\ rq.route = Longest(ScopedMatches(LabelsOf(rq.name)))

\* C6: when a forwarded query fails with a transport error, or no scoped or
\* wildcard route exists for the name, ServeDNS writes exactly one server
\* failure with the query's transaction id and recursion-desired flag and
\* returns; without a route no exchange is attempted
C6_FailureIsAnswered ==
    [][\A h \in Goroutines :
         (Leaves(h, "exchange") /\ g'[h].did \cap {"OpError", "errNoUpstream"} # {}) =>
             /\ g'[h].pc = "done"
             /\ running'
             /\ Len(g'[h].written) = 1
             /\ g'[h].written[1].Rcode = "SERVFAIL"
             /\ g'[h].written[1].Response
             /\ g'[h].written[1].Id = g[h].r.Id
             /\ g'[h].written[1].RecursionDesired = g[h].r.RecursionDesired
             /\ g'[h].written[1].Answer = <<>>
             /\ ("errNoUpstream" \in g'[h].did) => ("exchange" \notin g'[h].did)]_vars

\* one goroutine answered a transport error, the other a name without a route
C6_Witness ==
    \E h \in Goroutines, o \in Goroutines :
        /\ g[h].pc = "done" /\ "OpError" \in g[h].did /\ "exchange" \in g[h].did
        /\ Len(g[h].written) = 1
        /\ g[o].pc = "done" /\ "errNoUpstream" \in g[o].did
        /\ Len(g[o].written) = 1

\* C7: a forward that fails with an error that is neither a transport error
\* nor the "no upstream" error gets no response
C7_OtherErrorIsSilent ==
    \A h \in Goroutines : "Other" \in g[h].did => g[h].written = <<>>

\* goroutine h is inside checkNoDoS with the lock in this step
InGate(h) == Leaves(h, "gateCheck") \/ Leaves(h, "gateStore")

\* C8: an attempt from one IP, from any port, changes no entry of another IP
\* and makes no entry under another key; it is denied only when its own IP has
\* used its allowance; and it stores the entry of its IP, whatever its port
C8_PerIp ==
    [][\A h \in Goroutines :
         InGate(h) =>
             LET a == IPString(g[h].w.IP)
                 old == lastResultSent.m
                 new == lastResultSent'.m
             IN  /\ DOMAIN new \subseteq (DOMAIN old) \cup {a}
                 /\ \A b \in DOMAIN old : b # a => (b \in DOMAIN new /\ new[b] = old[b])
                 /\ (g'[h].gate = "denied") =>
                        /\ g[h].w.IP \in DOMAIN hist.run
                        /\ hist.run[g[h].w.IP] >= DebounceCount + 1
                 /\ Leaves(h, "gateStore") =>
                        (a \in DOMAIN new /\ new[a] = [tm |-> now, cnt |-> g[h].cnt])]_vars

\* one IP is denied while another IP, with its own entry, is allowed, and the
\* denied IP had sent from two ports
C8_Witness ==
    \E h \in Goroutines, o \in Goroutines :
        /\ g[h].gate = "denied" /\ g[o].gate = "allowed"
        /\ g[o].w.Net = "udp" /\ g[h].w.IP # g[o].w.IP
        /\ g[h].w.Port = 1002
        /\ DOMAIN lastResultSent.m = {IPString(g[h].w.IP), IPString(g[o].w.IP)}

\* C9: a mapping whose store write succeeded is, after a restart with the same
\* store, answered from the cache with the stored name, without an upstream
\* exchange
C9_Persistence ==
    [][\A h \in Goroutines :
         LET name == g[h].r.Question[1].Name IN
         (/\ PtrLookup(h)
          /\ name \in DOMAIN hist.restored
          /\ name \notin DOMAIN hist.lastWrite) =>
             AnsweredFromCache(h, hist.restored[name])]_vars

\* C10: the same PTR query resolved twice, with no upstream answer written to
\* the cache in between, gets the same answer both times
C10_Idempotent ==
    [][\A h \in Goroutines :
         LET name == g[h].r.Question[1].Name IN
         (PtrLookup(h) /\ name \in DOMAIN g[h].heard) =>
             AnsweredFromCache(h, g[h].heard[name])]_vars

\* goroutine h is at an access to h.ptrMap that takes no lock: the assignment
\* of line 120, or the map read of line 132
UnlockedAccess(h) ==
    \/ g[h].pc = "mkMap"
    \/ /\ g[h].pc = "lookup"
       /\ Len(g[h].r.Question) >= 1
       /\ IsPtrIn(g[h].r.Question[1])

\* C11: no goroutine reads, initialises or writes the map of the passive cache
\* while another goroutine is writing it
C11_MutualExclusion ==
    \A h \in Goroutines, o \in Goroutines :
        (h # o /\ g[o].pc = "ptrWrite") => ~UnlockedAccess(h)

\* C12: a reverse name that is in the cache stays in the cache in every later
\* state of the process
C12_OverwriteOnly ==
    [][DOMAIN ptrMap.m \subseteq DOMAIN ptrMap'.m]_vars


-----------------------------------------------------------------------------
(* The whole handler, with and without a durable store *)

FullUpstreams == {Outcome("OpError", <<>>), Outcome("nil", <<A(Addr4)>>)}

InitFull ==
    /\ \E store \in {NoDB, OpenDB(EmptyMap)} : MainInit(ScopedUpstream, store, 2, 0)
    /\ budget = [queries |-> MaxFull, restarts |-> 0, time |-> 0, trace |-> FALSE]
    /\ rq = NoRq

NextFull ==
    \/ \E h \in Goroutines : \E q \in Queries : Start(h, q)
    \/ \E h \in Goroutines : GateLock(h)
    \/ \E h \in Goroutines : GateCheck(h)
    \/ \E h \in Goroutines : GateStore(h)
    \/ \E h \in Goroutines : NilCheck(h)
    \/ \E h \in Goroutines : MkMap(h)
    \/ \E h \in Goroutines : Lookup(h)
    \/ \E h \in Goroutines : Exchange(h, FullUpstreams)
    \/ \E h \in Goroutines : Answers(h)
    \/ \E h \in Goroutines : PtrWrite(h)
    \/ \E h \in Goroutines : StoreUpdate(h)
    \/ \E h \in Goroutines : Return(h)

SpecFull == InitFull /\ [][NextFull]_vars

\* goroutine h does I/O in this step: the upstream exchange, the transaction
\* on the durable store, or the write of a response
DoesIO(h) ==
    \/ Leaves(h, "exchange")
    \/ Leaves(h, "storeUpdate")
    \/ g'[h].written # g[h].written

\* C13: a goroutine that does the upstream exchange, a store write or a
\* response write holds neither lock, before and after the step; a goroutine
\* holds lastResultSentLock only inside checkNoDoS and ptrMapLock only at the
\* map write, and never both
C13_NoLockAcrossIO ==
    [][\A h \in Goroutines :
         /\ DoesIO(h) =>
               /\ lastResultSentLock # h /\ ptrMapLock # h
               /\ lastResultSentLock' # h /\ ptrMapLock' # h
         /\ (lastResultSentLock' = h) => g'[h].pc \in {"gateCheck", "gateStore"}
         /\ (ptrMapLock' = h) => g'[h].pc = "ptrWrite"
         /\ ~(lastResultSentLock' = h /\ ptrMapLock' = h)]_vars

\* one goroutine is in the store transaction while the other holds the lock of
\* the debounce table, and the lock of the cache is free
C13_Witness ==
    \E h \in Goroutines, o \in Goroutines :
        /\ g[h].pc = "storeUpdate" /\ ptrMapLock = NoHolder
        /\ g[o].pc = "gateStore" /\ lastResultSentLock = o


\* C14: a query that ends in a denial, a drop for want of a question, a cache
\* hit, a refusal or a failed forward (every end without an upstream reply)
\* has changed neither the contents of the cache nor the durable store
C14_WritesOnlyOnSuccess ==
    \A h \in Goroutines :
        (g[h].pc = "done" /\ g[h].resp = NoMsg) =>
            /\ g[h].did \cap {"cacheLost", "cacheWrite", "storeWrite"} = {}
            /\ g[h].wrote = {}


\* C15: when the store write of a mapping fails during a successful forward,
\* the process goes on, the cache keeps the mapping, the response written is
\* the upstream's reply, and a later PTR query for that reverse name is
\* answered from the cache
C15_StoreFailureInvisible ==
    [][\A h \in Goroutines :
         /\ (Leaves(h, "storeUpdate") /\ "storeError" \in g'[h].did) =>
               /\ running'
               /\ ptrMap' = ptrMap
               /\ g'[h].wrote \subseteq DOMAIN ptrMap'.m
               /\ g'[h].resp = g[h].resp
         /\ (Leaves(h, "answers") /\ g'[h].pc = "done" /\ "storeError" \in g[h].did) =>
               g'[h].written = <<g[h].resp>>
         /\ (/\ PtrLookup(h)
             /\ g[h].r.Question[1].Name \in hist.failed) =>
               AnsweredFromCache(h, hist.lastWrite[g[h].r.Question[1].Name])]_vars


\* C16: every entry of the debounce table has a count from 0 to DebounceCount,
\* the table holds exactly one entry for each source IP that was allowed a
\* reply, and no entry is ever removed
C16_EntryBounds ==
    [][LET old == lastResultSent.m
           new == lastResultSent'.m
       IN  /\ \A k \in DOMAIN new : 0 <= new[k].cnt /\ new[k].cnt <= DebounceCount
           /\ DOMAIN old \subseteq DOMAIN new
           /\ DOMAIN new = {IPString(ip) : ip \in DOMAIN hist'.lastAllowed}
           /\ Cardinality(DOMAIN new) = Cardinality(DOMAIN hist'.lastAllowed)]_vars

\* two source IPs have an entry; one has used its whole allowance of two
\* replies and was denied, from two ports
C16_Witness ==
    /\ DebounceCount = 1
    /\ Cardinality(DOMAIN lastResultSent.m) = 2
    /\ \E ip \in DOMAIN hist.denied :
          /\ hist.denied[ip] >= 1
          /\ lastResultSent.m[IPString(ip)].cnt = 0
    /\ \E h \in Goroutines : g[h].gate = "denied" /\ g[h].w.Port = 1002


\* C17: a step of a goroutine whose query came over TCP never takes the lock of
\* the debounce table, never changes the table, and never ends in a denial
C17_TcpNeverGated ==
    [][\A h \in Goroutines :
         (g[h].w.Net = "tcp" /\ g'[h] # g[h]) =>
             /\ lastResultSent' = lastResultSent
             /\ lastResultSentLock' = lastResultSentLock
             /\ hist'.denied = hist.denied
             /\ g'[h].gate # "denied"
             /\ g[h].pc = "gate" => g'[h].gate = "allowed"]_vars

\* a TCP query passed the gate while a UDP query from the same IP was denied
C17_Witness ==
    \E h \in Goroutines, o \in Goroutines :
        /\ g[h].w.Net = "tcp" /\ g[h].gate = "allowed"
        /\ g[o].w.Net = "udp" /\ g[o].gate = "denied"
        /\ g[h].w.IP = g[o].w.IP
        /\ hist.lastAllowed[g[o].w.IP] <= now


\* C18: a denied attempt leaves the debounce table as it was: the entry of the
\* source IP keeps its time, which is the time of the last allowed reply, and
\* its count, so the window ends when it would have ended without the attempt
C18_DeniedLeavesEntry ==
    [][\A h \in Goroutines :
         (Leaves(h, "gateCheck") /\ g'[h].gate = "denied") =>
             LET ip == IPString(g[h].w.IP) IN
             /\ lastResultSent' = lastResultSent
             /\ ip \in DOMAIN lastResultSent'.m
             /\ lastResultSent'.m[ip].tm = hist.lastAllowed[g[h].w.IP]
             /\ lastResultSent'.m[ip].cnt = 0]_vars

\* a source was denied twice since its last allowed reply, the second time
\* later than the first allowed reply
C18_Witness ==
    \E h \in Goroutines :
        /\ g[h].gate = "denied"
        /\ hist.denied[g[h].w.IP] >= 2
        /\ hist.lastAllowed[g[h].w.IP] < now


-----------------------------------------------------------------------------
(* The rate of the replies allowed to one source IP, with their times traced *)

\* the attempts of one source IP, from two ports
RateAttempts ==
    {Query(w, 8, FALSE, <<Question(HostName, "A", "IN")>>) :
        w \in {Udp(<<10, 0, 0, 1>>, 1001), Udp(<<10, 0, 0, 1>>, 1002)}}

InitRate ==
    /\ \E delay \in {1, 2, 3}, count \in {0, 1} :
          MainInit(ScopedUpstream, NoDB, delay, count)
    /\ budget = [queries |-> MaxRate, restarts |-> 0, time |-> MaxTime, trace |-> TRUE]
    /\ rq = NoRq

NextRate ==
    \/ \E h \in Goroutines : \E q \in RateAttempts : Start(h, q)
    \/ \E h \in Goroutines : GateLock(h)
    \/ \E h \in Goroutines : GateCheck(h)
    \/ \E h \in Goroutines : GateStore(h)
    \/ \E h \in Goroutines : NilCheck(h)
    \/ \E h \in Goroutines : MkMap(h)
    \/ \E h \in Goroutines : Lookup(h)
    \/ \E h \in Goroutines : Return(h)
    \/ Tick

SpecRate == InitRate /\ [][NextRate]_vars

\* the number of replies allowed to ip at the times from..upto
AllowedIn(ip, from, upto) ==
    Cardinality({i \in 1..Len(hist.times[ip]) :
                    from <= hist.times[ip][i] /\ hist.times[ip][i] <= upto})

\* C19: in any interval of time shorter than DebounceDelay the gate allows at
\* most DebounceCount + 1 replies to one source IP
C19_RateBound ==
    \A ip \in DOMAIN hist.times :
        \A from \in 0..now, upto \in 0..now :
            (from <= upto /\ upto - from < DebounceDelay) =>
                AllowedIn(ip, from, upto) <= DebounceCount + 1

\* DebounceCount + 1 replies were allowed at one time, the source was denied,
\* and after the window it was allowed again
C19_Witness ==
    \E ip \in DOMAIN hist.times :
        /\ Len(hist.times[ip]) >= DebounceCount + 2
        /\ AllowedIn(ip, 0, 0) = DebounceCount + 1
        /\ \E h \in Goroutines : g[h].branch = "elapsed" /\ g[h].gate = "allowed"
        /\ \E h \in Goroutines : g[h].gate = "denied"


-----------------------------------------------------------------------------
(* Two names that resolve to one address, cached and stored concurrently *)

PeerName == <<"p", ".", "c", ".">>

\* forwards for two names
SyncQueries ==
    {Query(Tcp(<<10, 0, 0, 1>>, 1001), 7, TRUE, <<Question(name, "A", "IN")>>) :
        name \in {HostName, PeerName}}

\* the upstream answers every name with the same address
SyncUpstreams == {Outcome("nil", <<A(Addr4)>>)}

InitSync ==
    /\ MainInit(ScopedUpstream, OpenDB(EmptyMap), 2, 0)
    /\ budget = [queries |-> MaxSync, restarts |-> 0, time |-> 0, trace |-> FALSE]
    /\ rq = NoRq

NextSync ==
    \/ \E h \in Goroutines : \E q \in SyncQueries : Start(h, q)
    \/ \E h \in Goroutines : GateLock(h)
    \/ \E h \in Goroutines : NilCheck(h)
    \/ \E h \in Goroutines : Lookup(h)
    \/ \E h \in Goroutines : Exchange(h, SyncUpstreams)
    \/ \E h \in Goroutines : Answers(h)
    \/ \E h \in Goroutines : PtrWrite(h)
    \/ \E h \in Goroutines : StoreUpdate(h)
    \/ \E h \in Goroutines : Return(h)

SpecSync == InitSync /\ [][NextSync]_vars

\* no goroutine is between the map write and the store write that follows it
StoreSettled == \A h \in Goroutines : g[h].pc \notin {"ptrWrite", "storeUpdate"}

\* C20: when no store write has failed and no goroutine is between its map
\* write and the store write that follows it, the store holds for every reverse
\* name written since the start the forward name that the cache holds
C20_StoreFollowsCache ==
    (hist.failed = {} /\ StoreSettled) =>
        \A ptr \in DOMAIN hist.lastWrite :
            /\ ptr \in DOMAIN StoreDB.kv
            /\ ptr \in DOMAIN ptrMap.m
            /\ StoreDB.kv[ptr] = ptrMap.m[ptr]


=============================================================================
